---- MODULE Spec2Model ----
(***************************************************************************)
(* Studien-Dashboard: entity model (models.py), progress and grade         *)
(* services (services.py), JSON store (store.py) and dashboard controller  *)
(* (controller.py) as state machines.                                      *)
(*                                                                         *)
(* Python values are records [k, n, d, s, dt]: k is the type tag, n/d an   *)
(* exact rational (ints have d = 1), s the text of a str, dt a calendar    *)
(* date.  Floats are modelled by exact rationals; the one place where the  *)
(* IEEE-754 rounding of the code decides an outcome (the product compared  *)
(* with 10 in ampel) takes the rounding direction as an input.             *)
(***************************************************************************)
EXTENDS Integers, Sequences, FiniteSets, TLC

VARIABLES
    semester,     \* Studiengang.semester: sequence of sequences of Modul
    ects_gesamt,  \* Studiengang.ects_gesamt
    cfg,          \* DashboardController.cfg (in-memory configuration)
    file,         \* the JSON file behind JsonStore.path
    today,        \* index of the calendar day date.today() returns
    call,         \* arguments of the service call under way
    last          \* the last operation and what it returned or raised

vars == <<semester, ects_gesamt, cfg, file, today, call, last>>

Idle == [op |-> "idle"]

(***************************************************************************)
(* models.py                                                               *)
(***************************************************************************)

\* ExamStatus, plus None for an attempt without a result yet.
ExamStatus == {"BESTANDEN", "NICHT_BESTANDEN"}
ExamType == {"KLAUSUR", "WORKBOOK", "PROJEKT"}

Pruefungsleistung(typ, status) == [typ |-> typ, status |-> status]

ist_bestanden(p) == p.status = "BESTANDEN"

\* The capacity of Modul.pruefungen tested by fuege_pruefung_hinzu.
MaxVersuche == 3

RECURSIVE SumSeq(_)
SumSeq(s) == IF s = <<>> THEN 0 ELSE Head(s) + SumSeq(Tail(s))

\* Modul.fuege_pruefung_hinzu: the new attempt list and whether ValueError
\* was raised.
fuege_pruefung_hinzu_off(m, p) ==
    IF Len(m.pruefungen) > MaxVersuche
    THEN [modul |-> m, raised |-> TRUE]
    ELSE [modul |-> [m EXCEPT !.pruefungen = Append(@, p)], raised |-> FALSE]

fuege_pruefung_hinzu(m, p) ==
    IF Len(m.pruefungen) >= MaxVersuche
    THEN [modul |-> m, raised |-> TRUE]
    ELSE [modul |-> [m EXCEPT !.pruefungen = Append(@, p)], raised |-> FALSE]

abgeschlossen(m) == \E i \in 1..Len(m.pruefungen) : ist_bestanden(m.pruefungen[i])

\* Semester.ects_abgeschlossen
ects_abgeschlossen(sem) ==
    SumSeq([i \in 1..Len(sem) |-> IF abgeschlossen(sem[i]) THEN sem[i].ects ELSE 0])

\* Studiengang.ects_ist
ects_ist(sems) == SumSeq([i \in 1..Len(sems) |-> ects_abgeschlossen(sems[i])])

(***************************************************************************)
(* Python values                                                           *)
(***************************************************************************)

NoDate == [year |-> 0, month |-> 0, day |-> 0]

Val(k, n, d, s, dt) == [k |-> k, n |-> n, d |-> d, s |-> s, dt |-> dt]

RECURSIVE GCD(_, _)
GCD(a, b) == IF b = 0 THEN a ELSE GCD(b, a % b)

Abs(x) == IF x < 0 THEN -x ELSE x

PyNone == Val("none", 0, 1, "", NoDate)
PyList == Val("list", 0, 1, "", NoDate)          \* the empty list []
PyIntV(i) == Val("int", i, 1, "", NoDate)
PyBool(b) == Val("bool", IF b THEN 1 ELSE 0, 1, "", NoDate)
PyStrV(s) == Val("str", 0, 1, s, NoDate)
PyDate(dt) == Val("date", 0, 1, "", dt)
\* A datetime.datetime (a subclass of date) at 10:30:00 of day dt.
PyDateTime(dt) == Val("datetime", 0, 1, "", dt)
\* The float n/d (d > 0), in lowest terms.
PyFloatV(n, d) ==
    LET g == GCD(Abs(n), d) IN Val("float", n \div g, d \div g, "", NoDate)
PyNaN == Val("nan", 0, 1, "", NoDate)
PyInf(sign) == Val("inf", sign, 1, "", NoDate)

IsFloat(v) == v.k \in {"float", "nan", "inf"}

\* a < b on floats, as Python compares them (every comparison with nan is false).
FLt(a, b) ==
    CASE a.k = "nan" \/ b.k = "nan" -> FALSE
      [] a.k = "inf" /\ b.k = "inf" -> a.n < b.n
      [] a.k = "inf" -> a.n < 0
      [] b.k = "inf" -> b.n > 0
      [] OTHER -> a.n * b.d < b.n * a.d

FLe(a, b) ==
    CASE a.k = "nan" \/ b.k = "nan" -> FALSE
      [] OTHER -> ~FLt(b, a)

\* Python's min(a, b) and max(a, b): the first argument unless the second is
\* strictly smaller (larger).
PyMin(a, b) == IF FLt(b, a) THEN b ELSE a
PyMax(a, b) == IF FLt(a, b) THEN b ELSE a

IMin(a, b) == IF b < a THEN b ELSE a
IMax(a, b) == IF b > a THEN b ELSE a

\* f is a float in [lo, hi] (integers).
FloatWithin(f, lo, hi) ==
    f.k = "float" /\ f.d > 0 /\ lo * f.d <= f.n /\ f.n <= hi * f.d

(***************************************************************************)
(* Text: the decimal literals int() and float() accept, str.strip(), and   *)
(* the ISO calendar format.                                                *)
(***************************************************************************)

\* The numeric texts of the model: s reads as n/d; int() accepts it only
\* when it is an integer literal, float() always (both ignore outer blanks).
DecimalLits ==
    { [s |-> "45", n |-> 45, d |-> 1, int |-> TRUE],
      [s |-> " 7 ", n |-> 7, d |-> 1, int |-> TRUE],
      [s |-> "200", n |-> 200, d |-> 1, int |-> TRUE],
      [s |-> "-5", n |-> -5, d |-> 1, int |-> TRUE],
      [s |-> "3.0", n |-> 3, d |-> 1, int |-> FALSE],
      [s |-> "2.5", n |-> 5, d |-> 2, int |-> FALSE],
      [s |-> "7.5", n |-> 15, d |-> 2, int |-> FALSE] }

HasLit(s) == \E l \in DecimalLits : l.s = s
Lit(s) == CHOOSE l \in DecimalLits : l.s = s

\* str.strip() on the texts of the model that carry outer blanks.
Padded ==
    { [s |-> " BSc ", t |-> "BSc"], [s |-> " ", t |-> ""],
      [s |-> " Ana ", t |-> "Ana"], [s |-> " 7 ", t |-> "7"] }

strip(s) ==
    IF \E p \in Padded : p.s = s THEN (CHOOSE p \in Padded : p.s = s).t ELSE s

Pad2(i) == IF i < 10 THEN "0" \o ToString(i) ELSE ToString(i)

\* date.isoformat(): YYYY-MM-DD (years of the model have four digits).
isoformat(dt) ==
    ToString(dt.year) \o "-" \o Pad2(dt.month) \o "-" \o Pad2(dt.day)

\* datetime.isoformat() of the model's datetimes.
dt_isoformat(dt) == isoformat(dt) \o "T10:30:00"

Day(y, m, d) == [year |-> y, month |-> m, day |-> d]

\* The calendar of the controller and store specifications: date.today()
\* is Calendar[today], and days pass in this order.
Calendar ==
    << Day(2024, 1, 31), Day(2024, 2, 1) >>

\* The dates that occur as values or as texts.
KnownDates ==
    { Calendar[i] : i \in 1..Len(Calendar) } \cup { Day(2023, 10, 1), Day(2019, 3, 15) }

IsoTexts ==
    { [s |-> isoformat(dt), dt |-> dt] : dt \in KnownDates }
    \cup { [s |-> dt_isoformat(dt), dt |-> dt] : dt \in KnownDates }

\* datetime.fromisoformat(s).date(): ok is FALSE where it raises ValueError.
fromisoformat(s) ==
    IF \E e \in IsoTexts : e.s = s
    THEN [ok |-> TRUE, dt |-> (CHOOSE e \in IsoTexts : e.s = s).dt]
    ELSE [ok |-> FALSE, dt |-> NoDate]

\* int(x): ok is FALSE where it raises (TypeError, ValueError, OverflowError).
PyInt(x) ==
    CASE x.k \in {"int", "bool"} -> [ok |-> TRUE, v |-> x.n]
      [] x.k = "float" ->
            [ok |-> TRUE,
             v |-> IF x.n >= 0 THEN x.n \div x.d ELSE -((-x.n) \div x.d)]
      [] x.k = "str" /\ HasLit(x.s) /\ Lit(x.s).int ->
            [ok |-> TRUE, v |-> Lit(x.s).n]
      [] OTHER -> [ok |-> FALSE, v |-> 0]

\* float(x): ok is FALSE where it raises.
PyFloat(x) ==
    CASE x.k \in {"int", "bool"} -> [ok |-> TRUE, v |-> PyFloatV(x.n, 1)]
      [] IsFloat(x) -> [ok |-> TRUE, v |-> x]
      [] x.k = "str" /\ HasLit(x.s) ->
            [ok |-> TRUE, v |-> PyFloatV(Lit(x.s).n, Lit(x.s).d)]
      [] OTHER -> [ok |-> FALSE, v |-> PyNaN]

\* repr of a float with at most two decimals (3.0, 2.5, 3.01).
FloatText(n, d) ==
    LET h == (Abs(n) * 100) \div d
        whole == h \div 100
        frac == h % 100
    IN  (IF n < 0 THEN "-" ELSE "") \o ToString(whole) \o "." \o
        (IF frac % 10 = 0 THEN ToString(frac \div 10) ELSE Pad2(frac))

\* str(x)
PyStr(x) ==
    CASE x.k = "str" -> x.s
      [] x.k = "none" -> "None"
      [] x.k = "int" -> ToString(x.n)
      [] x.k = "bool" -> IF x.n = 1 THEN "True" ELSE "False"
      [] x.k = "list" -> "[]"
      [] x.k = "date" -> isoformat(x.dt)
      [] x.k = "datetime" -> isoformat(x.dt) \o " 10:30:00"
      [] x.k = "nan" -> "nan"
      [] x.k = "inf" -> IF x.n > 0 THEN "inf" ELSE "-inf"
      [] OTHER -> FloatText(x.n, x.d)

\* bool(x)
PyTruthy(x) ==
    CASE x.k = "str" -> x.s # ""
      [] x.k \in {"none", "list"} -> FALSE
      [] x.k \in {"int", "bool", "float"} -> x.n # 0
      [] OTHER -> TRUE

\* isinstance(x, date): datetime is a subclass of date.
IsDate(x) == x.k \in {"date", "datetime"}

\* dict.get(key, default)
Get(m, key, default) == IF key \in DOMAIN m THEN m[key] ELSE default


(***************************************************************************)
(* services.py                                                             *)
(***************************************************************************)

DURATION_MONTHS == 54
ECTS_MAX == 180
DurationMax == 9999
GapLimit == 10

F0 == PyFloatV(0, 1)
F1 == PyFloatV(1, 1)

\* ProgressService._clamp_int: an integer.
Svc_clamp_int(x, lo, hi) ==
    LET c == PyInt(x)
        v == IF c.ok THEN c.v ELSE lo
    IN  IMax(lo, IMin(hi, v))

\* ProgressService._clamp_float: a float value.
Svc_clamp_float(x, lo, hi) ==
    LET c == PyFloat(x)
        v == IF c.ok THEN c.v ELSE lo
    IN  PyMax(lo, PyMin(hi, v))

months_since(start, t) ==
    IMax(0, (t.year - start.year) * 12 + (t.month - start.month))

\* ProgressService.progress_ist: a float.
progress_ist_done_to_max(ects_done, ects_total) ==
    LET total == Svc_clamp_int(ects_total, 1, ECTS_MAX)
        done == Svc_clamp_int(ects_done, 0, ECTS_MAX)
    IN  IF total # 0 THEN PyFloatV(done, total) ELSE F0

progress_ist(ects_done, ects_total) ==
    LET total == Svc_clamp_int(ects_total, 1, ECTS_MAX)
        done == Svc_clamp_int(ects_done, 0, total)
    IN  IF total # 0 THEN PyFloatV(done, total) ELSE F0

progress_soll_uncapped(start, t, duration_months) ==
    LET dur == Svc_clamp_int(duration_months, 1, DurationMax)
        m == months_since(start, t)
    IN  PyFloatV(m, dur)

progress_soll(start, t, duration_months) ==
    LET dur == Svc_clamp_int(duration_months, 1, DurationMax)
        m == months_since(start, t)
    IN  PyMin(PyFloatV(m, dur), F1)

\* A float the binary format holds exactly: a denominator that is a power
\* of two (the numerators of the model are small).
Dyadic(v) == v.d \in {1, 2, 4, 8, 16, 32, 64}

\* The exact value of |soll - ist| * ects_total as a fraction [n, d].
Gap(ist, soll, total) ==
    [n |-> Abs(soll.n * ist.d - ist.n * soll.d) * total, d |-> soll.d * ist.d]

Im_Plan == [color |-> "green", label |-> "im Plan"]
Hinten == [color |-> "yellow", label |-> "etwas hinten dran"]
Verzoegert == [color |-> "red", label |-> "deutlich verzögert"]

\* ProgressService.ampel.  diff_ects is a double: where ist or soll is not a
\* binary fraction, (soll - ist) * ects_total is rounded, and an exact
\* product of 10 is computed as 10 or as 10.000000000000002 (ampel(5/15,
\* 54/54, 15) gives the latter).  round_up says which: it decides the
\* comparison diff_ects <= 10 in that one case and in no other.
ampel(ist_in, soll_in, total_in, round_up) ==
    LET ist == Svc_clamp_float(ist_in, F0, F1)
        soll == Svc_clamp_float(soll_in, F0, F1)
        total == Svc_clamp_int(total_in, 1, ECTS_MAX)
        gap == Gap(ist, soll, total)
        exact == Dyadic(ist) /\ Dyadic(soll)
        diff_le == \/ gap.n < GapLimit * gap.d
                   \/ gap.n = GapLimit * gap.d /\ (exact \/ ~round_up)
    IN  IF FLe(soll, ist) THEN Im_Plan
        ELSE IF diff_le THEN Hinten
        ELSE Verzoegert

DefaultThreshold == PyFloatV(3, 1)

\* GradeService.is_ok
is_ok_strict(avg_grade, threshold) ==
    LET c == PyFloat(avg_grade)
        g == IF c.ok THEN c.v ELSE PyFloatV(5, 1)
    IN  FLt(g, threshold)

is_ok(avg_grade, threshold) ==
    LET c == PyFloat(avg_grade)
        g == IF c.ok THEN c.v ELSE PyFloatV(5, 1)
    IN  FLe(g, threshold)


\* Studiengang.ist_prozent: a float.
ist_prozent(gesamt, sems) ==
    IF gesamt <= 0 THEN F0 ELSE PyFloatV(ects_ist(sems), gesamt)

(***************************************************************************)
(* Specification SpecModul: a Studiengang of two semesters and three       *)
(* modules; attempts are added and the progress is read.                   *)
(***************************************************************************)

NoCfg == <<>>
NoFile == [state |-> "unused"]

Modul(code, ects) == [code |-> code, ects |-> ects, pruefungen |-> <<>>]

InitModul ==
    /\ semester = << <<Modul("M1", 5), Modul("M2", 10)>>, <<Modul("M3", 15)>> >>
    /\ ects_gesamt \in {-5, 0, 10, 40}
    /\ cfg = NoCfg /\ file = NoFile /\ today = 1 /\ call = Idle
    /\ last = Idle

FuegePruefungHinzu ==
    \E i \in 1..Len(semester) : \E j \in 1..Len(semester[i]) :
      \E status \in ExamStatus :
        LET p == Pruefungsleistung("KLAUSUR", status)
            r == fuege_pruefung_hinzu(semester[i][j], p)
        IN  /\ semester' = [semester EXCEPT ![i][j] = r.modul]
            /\ last' = [op |-> "fuege_pruefung_hinzu", sem |-> i, mod |-> j,
                        p |-> p, vorher |-> semester[i][j].pruefungen,
                        raised |-> r.raised]
            /\ UNCHANGED <<ects_gesamt, cfg, file, today, call>>

IstProzent ==
    /\ last' = [op |-> "ist_prozent", ret |-> ist_prozent(ects_gesamt, semester)]
    /\ UNCHANGED <<semester, ects_gesamt, cfg, file, today, call>>

NextModul == FuegePruefungHinzu \/ IstProzent

SpecModul == InitModul /\ [][NextModul]_vars

\* C1: starting from modules without attempts, every module always holds at
\* most 3 attempts; a fuege_pruefung_hinzu call on a module with fewer than
\* 3 attempts appends the attempt and does not raise, and a call on a module
\* that holds 3 attempts raises and leaves the attempt list as it was.
C1_MaxDreiVersuche ==
    /\ \A i \in 1..Len(semester) : \A j \in 1..Len(semester[i]) :
          Len(semester[i][j].pruefungen) <= 3
    /\ last.op = "fuege_pruefung_hinzu" =>
          LET jetzt == semester[last.sem][last.mod].pruefungen IN
          IF Len(last.vorher) < 3
          THEN ~last.raised /\ jetzt = Append(last.vorher, last.p)
          ELSE last.raised /\ jetzt = last.vorher

C1_Witness ==
    /\ last.op = "fuege_pruefung_hinzu"
    /\ last.raised
    /\ Len(semester[last.sem][last.mod].pruefungen) = 3

\* The credits of the modules with at least one passed attempt.
CreditsEarned ==
    SumSeq([i \in 1..Len(semester) |->
        SumSeq([j \in 1..Len(semester[i]) |->
            IF \E a \in 1..Len(semester[i][j].pruefungen) :
                   semester[i][j].pruefungen[a].status = "BESTANDEN"
            THEN semester[i][j].ects ELSE 0])])

\* C8: ist_prozent() is credits_earned / ects_gesamt clamped to [0,1], and 0
\* when ects_gesamt <= 0; it never exceeds 1.
C8_IstProzentClamped ==
    last.op = "ist_prozent" =>
        /\ FLe(last.ret, F1)
        /\ last.ret = IF ects_gesamt <= 0 THEN F0
                      ELSE IF CreditsEarned >= ects_gesamt THEN F1
                      ELSE PyFloatV(CreditsEarned, ects_gesamt)


(***************************************************************************)
(* Specification SpecAmpel: ProgressService.ampel on drawn arguments.      *)
(***************************************************************************)

IstInputs ==
    { PyFloatV(0, 1), PyFloatV(1, 6), PyFloatV(1, 2), PyFloatV(1, 1),
      PyFloatV(3, 2), PyFloatV(-1, 2), PyNaN, PyNone, PyStrV("abc") }

SollInputs ==
    { PyFloatV(0, 1), PyFloatV(24, DURATION_MONTHS), PyFloatV(1, 2),
      PyFloatV(36, DURATION_MONTHS), PyFloatV(1, 1), PyFloatV(7, 5), PyList }

TotalInputs ==
    { PyIntV(10), PyIntV(30), PyIntV(180), PyIntV(200), PyIntV(0),
      PyStrV("abc") }

InitAmpel ==
    /\ call \in [ist : IstInputs, soll : SollInputs, ects_total : TotalInputs]
    /\ last = Idle
    /\ semester = <<>> /\ ects_gesamt = 0 /\ cfg = NoCfg /\ file = NoFile
    /\ today = 1

Ampel ==
    /\ \E round_up \in BOOLEAN :
          last' = [op |-> "ampel",
                   ret |-> ampel(call.ist, call.soll, call.ects_total, round_up)]
    /\ UNCHANGED <<semester, ects_gesamt, cfg, file, today, call>>

NextAmpel == Ampel

SpecAmpel == InitAmpel /\ [][NextAmpel]_vars

\* C2: with both fractions clamped to [0,1] and credits_total to [1,180],
\* ampel returns green whenever actual >= expected, otherwise yellow exactly
\* when |expected - actual| * credits_total <= 10, and red otherwise.
C2_Ampel ==
    last.op = "ampel" =>
        LET a == Svc_clamp_float(call.ist, F0, F1)
            e == Svc_clamp_float(call.soll, F0, F1)
            T == Svc_clamp_int(call.ects_total, 1, 180)
            behind == e.n * a.d - a.n * e.d
        IN  last.ret.color =
                IF behind <= 0 THEN "green"
                ELSE IF behind * T <= 10 * e.d * a.d THEN "yellow"
                ELSE "red"

(***************************************************************************)
(* Specification SpecGrade: GradeService.is_ok on drawn arguments.         *)
(***************************************************************************)

\* Grades are drawn in hundredths from 0.00 to MaxGradeCents / 100.
MaxGradeCents == 600

GradeInputs ==
    { PyFloatV(c, 100) : c \in 0..MaxGradeCents }
    \cup { PyIntV(3), PyIntV(4), PyStrV("3.0"), PyStrV("7.5"), PyStrV("abc"),
           PyStrV(""), PyNone, PyList, PyBool(TRUE), PyNaN, PyInf(1), PyInf(-1),
           PyDate(Day(2024, 2, 1)) }

ThresholdInputs == { DefaultThreshold, PyFloatV(5, 2), PyFloatV(4, 1) }

InitGrade ==
    /\ call \in [avg_grade : GradeInputs, threshold : ThresholdInputs]
    /\ last = Idle
    /\ semester = <<>> /\ ects_gesamt = 0 /\ cfg = NoCfg /\ file = NoFile
    /\ today = 1

IsOk ==
    /\ last' = [op |-> "is_ok", ret |-> is_ok(call.avg_grade, call.threshold)]
    /\ UNCHANGED <<semester, ects_gesamt, cfg, file, today, call>>

NextGrade == IsOk

SpecGrade == InitGrade /\ [][NextGrade]_vars

\* A value neither a number nor the text of one.
NonNumeric(x) == x.k \in {"none", "list", "date", "datetime"} \/ (x.k = "str" /\ ~HasLit(x.s))

\* The number a numeric (finite) input stands for, as a fraction [n, d].
NumberOf(x) == IF x.k = "str" THEN [n |-> Lit(x.s).n, d |-> Lit(x.s).d]
               ELSE [n |-> x.n, d |-> x.d]

\* C9: is_ok is true iff average_grade <= threshold (3.0 passes, 3.01 does
\* not); a non-numeric input counts as 5.0, so with the default threshold
\* it is never acceptable; is_ok raises for no input.
C9_IsOk ==
    last.op = "is_ok" =>
        LET g == call.avg_grade
            th == call.threshold
        IN  /\ last.ret \in BOOLEAN
            /\ (~NonNumeric(g) /\ g.k \notin {"nan", "inf"}) =>
                   (last.ret <=> NumberOf(g).n * th.d <= th.n * NumberOf(g).d)
            /\ NonNumeric(g) => (last.ret <=> 5 * th.d <= th.n)
            /\ (NonNumeric(g) /\ th = DefaultThreshold) => ~last.ret
            /\ (g = PyFloatV(300, 100) /\ th = DefaultThreshold) => last.ret
            /\ (g = PyFloatV(301, 100) /\ th = DefaultThreshold) => ~last.ret

C9_Witness ==
    /\ last.op = "is_ok"
    /\ call.avg_grade = PyFloatV(300, 100)
    /\ call.threshold = DefaultThreshold
    /\ last.ret


(***************************************************************************)
(* Specification SpecSoll: ProgressService.progress_soll while the         *)
(* calendar advances.                                                      *)
(***************************************************************************)

\* The calendar runs from 1 January of FirstYear over YearSpan years.
FirstYear == 2019
YearSpan == 7

SollDays == {1, 15, 28}

SollDates ==
    [year : FirstYear..(FirstYear + YearSpan - 1), month : 1..12, day : SollDays]

\* The day after t in SollDates (t itself on the last one).
NextDate(t) ==
    CASE t.day = 1 -> [t EXCEPT !.day = 15]
      [] t.day = 15 -> [t EXCEPT !.day = 28]
      [] t.month < 12 -> [t EXCEPT !.day = 1, !.month = t.month + 1]
      [] t.year < FirstYear + YearSpan - 1 ->
            [t EXCEPT !.day = 1, !.month = 1, !.year = t.year + 1]
      [] OTHER -> t

\* t is an earlier calendar day than u.
DateBefore(t, u) ==
    \/ t.year < u.year
    \/ t.year = u.year /\ t.month < u.month
    \/ t.year = u.year /\ t.month = u.month /\ t.day < u.day

SollStarts == { Day(FirstYear, 1, 15), Day(FirstYear, 12, 28), Day(FirstYear + 1, 6, 15) }

DurationInputs ==
    { PyIntV(DURATION_MONTHS), PyIntV(1), PyIntV(0), PyIntV(-3), PyIntV(12),
      PyIntV(10000), PyStrV("abc"), PyNone }

InitSoll ==
    /\ call \in [start : SollStarts, today : {Day(FirstYear, 1, 1)},
                 duration_months : DurationInputs]
    /\ last = Idle
    /\ semester = <<>> /\ ects_gesamt = 0 /\ cfg = NoCfg /\ file = NoFile
    /\ today = 1

ProgressSoll ==
    /\ last' = [op |-> "progress_soll",
                ret |-> progress_soll(call.start, call.today, call.duration_months)]
    /\ UNCHANGED <<semester, ects_gesamt, cfg, file, today, call>>

\* A day passes.
AdvanceToday ==
    /\ NextDate(call.today) # call.today
    /\ call' = [call EXCEPT !.today = NextDate(call.today)]
    /\ last' = Idle
    /\ UNCHANGED <<semester, ects_gesamt, cfg, file, today>>

NextSoll == ProgressSoll \/ AdvanceToday

SpecSoll == InitSoll /\ [][NextSoll]_vars

\* The duration clamped to [1, 9999]; 1 where it is no integer.
ClampedDuration(x) ==
    IF x.k = "int" THEN (IF x.n < 1 THEN 1 ELSE IF x.n > 9999 THEN 9999 ELSE x.n)
    ELSE 1

\* Whole calendar months from start to t, the day of month ignored, at least 0.
MonthsElapsed(start, t) ==
    LET diff == (t.year * 12 + t.month) - (start.year * 12 + start.month)
    IN  IF diff < 0 THEN 0 ELSE diff

C10_Value ==
    last.op = "progress_soll" =>
        LET d == ClampedDuration(call.duration_months)
            m == MonthsElapsed(call.start, call.today)
        IN  /\ last.ret = IF m >= d THEN F1 ELSE PyFloatV(m, d)
            /\ FLe(last.ret, F1)
            /\ DateBefore(call.today, call.start) => last.ret = F0

\* C10: progress_soll(start, today, duration) is min(m / d, 1.0) with d the
\* duration clamped to [1, 9999] and m the whole months from start to today
\* (day of month ignored, at least 0): it is 0 while today precedes start,
\* never exceeds 1.0, and does not decrease when today advances.
C10_ProgressSoll ==
    /\ [](C10_Value)
    /\ [][call'.today # call.today =>
            FLe(progress_soll(call.start, call.today, call.duration_months),
                progress_soll(call'.start, call'.today, call'.duration_months))]_vars

\* today lies more than the duration past start: the cap at 1.0 applies.
C10_Witness ==
    /\ last.op = "progress_soll"
    /\ MonthsElapsed(call.start, call.today) > ClampedDuration(call.duration_months)
    /\ call.duration_months = PyIntV(DURATION_MONTHS)
    /\ last.ret = F1


(***************************************************************************)
(* Specification SpecIst: ProgressService.progress_ist while credits are   *)
(* earned.                                                                 *)
(***************************************************************************)

\* Integer arguments of ects_done run from -2 up to MaxDone.
MaxDone == 183

IstTotals ==
    { PyIntV(i) : i \in {-1, 0, 1, 2, 3, 7, 60, 179, 180, 181, 200} }
    \cup { PyStrV("abc"), PyStrV(" 7 "), PyNone, PyFloatV(5, 2), PyBool(TRUE), PyNaN }

IstDones ==
    { PyIntV(i) : i \in -2..MaxDone }
    \cup { PyStrV("abc"), PyStrV("45"), PyNone, PyList, PyFloatV(15, 2), PyInf(1) }

InitIst ==
    /\ call \in [ects_done : IstDones, ects_total : IstTotals]
    /\ last = Idle
    /\ semester = <<>> /\ ects_gesamt = 0 /\ cfg = NoCfg /\ file = NoFile
    /\ today = 1

ProgressIst ==
    /\ last' = [op |-> "progress_ist",
                ret |-> progress_ist(call.ects_done, call.ects_total)]
    /\ UNCHANGED <<semester, ects_gesamt, cfg, file, today, call>>

\* One more credit is earned; the total stays.
EarnCredit ==
    /\ call.ects_done.k = "int"
    /\ call.ects_done.n < MaxDone
    /\ call' = [call EXCEPT !.ects_done = PyIntV(call.ects_done.n + 1)]
    /\ last' = Idle
    /\ UNCHANGED <<semester, ects_gesamt, cfg, file, today>>

NextIst == ProgressIst \/ EarnCredit

SpecIst == InitIst /\ [][NextIst]_vars

\* The integer i clamped to [lo, hi].
ClampTo(i, lo, hi) == IF i < lo THEN lo ELSE IF i > hi THEN hi ELSE i

\* The result is the fraction done / total.
IsQuotient(f, done, total) == f.k = "float" /\ f.d > 0 /\ f.n * total = done * f.d

C11_Value ==
    last.op = "progress_ist" =>
        /\ FloatWithin(last.ret, 0, 1)
        /\ (call.ects_total.k = "int" /\ call.ects_done.k = "int") =>
              LET T == ClampTo(call.ects_total.n, 1, 180)
                  D == ClampTo(call.ects_done.n, 0, T)
              IN  /\ IsQuotient(last.ret, D, T)
                  /\ (call.ects_total.n \in 1..180 /\ call.ects_done.n \in 0..call.ects_total.n)
                        => IsQuotient(last.ret, call.ects_done.n, call.ects_total.n)

\* C11: progress_ist(done, total) is D / T with T = total clamped to [1,180]
\* and D = done clamped to [0, T]; for total in [1,180] and done in
\* [0, total] it is done / total; it always lies in [0,1]; and for a fixed
\* total it does not decrease when done grows.
C11_ProgressIst ==
    /\ [](C11_Value)
    /\ [][(call'.ects_total = call.ects_total /\ call'.ects_done # call.ects_done) =>
            FLe(progress_ist(call.ects_done, call.ects_total),
                progress_ist(call'.ects_done, call'.ects_total))]_vars

\* Both arguments above their range: total is cut to 180 and done to total.
C11_Witness ==
    /\ last.op = "progress_ist"
    /\ call.ects_total = PyIntV(200)
    /\ call.ects_done = PyIntV(MaxDone)
    /\ last.ret = F1


(***************************************************************************)
(* store.py                                                                *)
(***************************************************************************)

_ALLOWED_KEYS == {"program", "name", "ects_total", "ects_done", "start", "avg_grade"}

\* date.today()
Today(t) == Calendar[t]

\* JsonStore._defaults on day t.
_defaults(t) ==
    [program |-> PyStrV(""), name |-> PyStrV(""), ects_total |-> PyIntV(180),
     ects_done |-> PyIntV(0), start |-> PyStrV(isoformat(Today(t))),
     avg_grade |-> PyFloatV(3, 1)]

\* JsonStore._clamp_int: an integer.
Store_clamp_int_hi(x, lo, hi) ==
    LET c == PyInt(x)
        v == IF c.ok THEN c.v ELSE hi
    IN  IMax(lo, IMin(hi, v))

Store_clamp_int(x, lo, hi) ==
    LET c == PyInt(x)
        v == IF c.ok THEN c.v ELSE lo
    IN  IMax(lo, IMin(hi, v))

\* JsonStore._clamp_float: a float value.
Store_clamp_float(x, lo, hi) ==
    LET c == PyFloat(x)
        v == IF c.ok THEN c.v ELSE lo
    IN  PyMax(lo, PyMin(hi, v))

\* JsonStore._iso_or_today on day t: a text.
_iso_or_today(x, t) ==
    CASE x.k = "date" -> isoformat(x.dt)
      [] x.k = "datetime" -> dt_isoformat(x.dt)
      [] x.k = "str" /\ fromisoformat(x.s).ok -> isoformat(fromisoformat(x.s).dt)
      [] OTHER -> isoformat(Today(t))

\* JsonStore._sanitize on day t.
_sanitize(data, t) ==
    LET dflt == _defaults(t)
        ects_total == Store_clamp_int(Get(data, "ects_total", dflt.ects_total), 1, 180)
        ects_done == Store_clamp_int(Get(data, "ects_done", dflt.ects_done), 0, ects_total)
    IN  [k \in _ALLOWED_KEYS |->
            CASE k = "program" -> PyStrV(strip(PyStr(Get(data, "program", dflt.program))))
              [] k = "name" -> PyStrV(strip(PyStr(Get(data, "name", dflt.name))))
              [] k = "ects_total" -> PyIntV(ects_total)
              [] k = "ects_done" -> PyIntV(ects_done)
              [] k = "start" -> PyStrV(_iso_or_today(Get(data, "start", dflt.start), t))
              [] OTHER -> Store_clamp_float(Get(data, "avg_grade", dflt.avg_grade),
                                            PyFloatV(1, 1), PyFloatV(5, 1))]

\* The file at JsonStore.path: missing, of size 0, not decodable as JSON, or
\* a JSON document.  A document is held as the value json.load decodes it
\* to (json.dump writes str, int and float values so that they read back
\* unchanged): an object (dict, with its members in doc) or another value.
FileAbsent == [state |-> "absent", dict |-> FALSE, doc |-> <<>>]
FileEmpty == [state |-> "empty", dict |-> FALSE, doc |-> <<>>]
FileCorrupt == [state |-> "corrupt", dict |-> FALSE, doc |-> <<>>]
FileNoObject == [state |-> "json", dict |-> FALSE, doc |-> <<>>]
FileObject(m) == [state |-> "json", dict |-> TRUE, doc |-> m]

\* JsonStore.load on day t.
load(f, t) ==
    IF f.state \in {"absent", "empty"} THEN _defaults(t)
    ELSE IF f.state = "corrupt" THEN _defaults(t)
    ELSE _sanitize(IF f.dict THEN f.doc ELSE <<>>, t)

\* JsonStore.save on day t: the file it leaves.
save(c, t) == FileObject(_sanitize(c, t))


(***************************************************************************)
(* Specification SpecStore: a JsonStore over a file of any content; save   *)
(* is called with arbitrary mappings, load reads the file, days pass.      *)
(***************************************************************************)

\* Marks a key a mapping does not hold.
Missing == Val("missing", 0, 1, "", NoDate)

\* The mapping of the entries of r that are not Missing.
Present(r) == [k \in {x \in DOMAIN r : r[x] # Missing} |-> r[k]]

\* The mappings handed to save.
SaveMappings ==
    { Present(r) : r \in
        [program : {PyNone},
         name : {Missing, PyStrV(" Ana ")},
         ects_total : {PyStrV("abc"), PyIntV(200)},
         ects_done : {PyIntV(45)},
         start : {Missing, PyDateTime(Day(2019, 3, 15)), PyDate(Day(2023, 10, 1)),
                  PyStrV("15.03.2019")},
         avg_grade : {Missing, PyList},
         ampel_color : {Missing, PyStrV("green")}] }

\* The JSON objects found in the file at start.
StoredObjects ==
    { Present(r) : r \in
        [program : {Missing, PyNone},
         name : {Missing, PyStrV(" Ana ")},
         ects_total : {Missing, PyStrV("abc"), PyIntV(200)},
         ects_done : {Missing, PyList, PyIntV(45)},
         start : {Missing, PyIntV(5), PyStrV("2023-10-01")},
         avg_grade : {Missing, PyNone, PyFloatV(15, 2)},
         ampel_color : {Missing, PyStrV("green")}] }

InitStore ==
    /\ file \in {FileAbsent, FileEmpty, FileCorrupt, FileNoObject}
                \cup { FileObject(m) : m \in StoredObjects }
    /\ today = 1
    /\ last = Idle
    /\ semester = <<>> /\ ects_gesamt = 0 /\ cfg = NoCfg /\ call = Idle

StoreSave ==
    \E m \in SaveMappings :
        /\ file' = save(m, today)
        /\ last' = [op |-> "save", arg |-> m]
        /\ UNCHANGED <<semester, ects_gesamt, cfg, today, call>>

StoreLoad ==
    /\ last' = [op |-> "load", ret |-> load(file, today)]
    /\ UNCHANGED <<semester, ects_gesamt, cfg, file, today, call>>

StoreTick ==
    /\ today < Len(Calendar)
    /\ today' = today + 1
    /\ last' = Idle
    /\ UNCHANGED <<semester, ects_gesamt, cfg, file, call>>

NextStore == StoreSave \/ StoreLoad \/ StoreTick

SpecStore == InitStore /\ [][NextStore]_vars

SixKeys == {"program", "name", "ects_total", "ects_done", "start", "avg_grade"}

\* C6: after save(m), load() returns the mapping that was written, today and
\* on any later day, and saving that result and loading again returns the
\* same mapping.
C6_RoundTrip ==
    last.op = "save" =>
        \A t \in today..Len(Calendar) :
            LET r1 == load(file, t)
                r2 == load(save(r1, t), t)
            IN  /\ r1 = file.doc
                /\ r2 = r1

\* The built-in defaults on the day of the load.
BuiltIn ==
    [program |-> PyStrV(""), name |-> PyStrV(""), ects_total |-> PyIntV(180),
     ects_done |-> PyIntV(0), start |-> PyStrV(isoformat(Calendar[today])),
     avg_grade |-> PyFloatV(3, 1)]

\* A stored value that is not of the kind its field holds.
Malformed(key, v) ==
    CASE key \in {"program", "name"} -> v.k # "str"
      [] key \in {"ects_total", "ects_done"} -> ~PyInt(v).ok
      [] key = "avg_grade" -> ~PyFloat(v).ok
      [] OTHER -> ~(v.k = "str" /\ fromisoformat(v.s).ok)

NoDocument == file.state # "json" \/ ~file.dict

Fallback ==
    [ects_total |-> PyIntV(1), ects_done |-> PyIntV(0),
     avg_grade |-> PyFloatV(1, 1), start |-> BuiltIn.start]

allowed == {"program", "name", "ects_total", "ects_done", "start", "avg_grade"}

\* DashboardController._as_int: an integer.
_as_int(val, lo, hi) ==
    LET c == PyInt(val)
        x == IF c.ok THEN c.v ELSE lo
    IN  IMax(lo, IMin(hi, x))

\* DashboardController._as_float: a float value.
_as_float_unclamped(val, lo, hi) ==
    LET c == PyFloat(val)
    IN  IF c.ok THEN c.v ELSE lo

_as_float(val, lo, hi) ==
    LET c == PyFloat(val)
        x == IF c.ok THEN c.v ELSE lo
    IN  PyMax(lo, PyMin(hi, x))

\* DashboardController._parse_date: a date or datetime value.
_parse_date(val, fallback) ==
    CASE IsDate(val) -> val
      [] val.k = "str" /\ fromisoformat(val.s).ok -> PyDate(fromisoformat(val.s).dt)
      [] OTHER -> PyDate(fallback)

\* The configuration after the loop of update_cfg over kwargs.
apply_kwargs_all(c, kwargs) ==
    [k \in DOMAIN c \cup DOMAIN kwargs |->
        IF k \in DOMAIN kwargs THEN kwargs[k] ELSE c[k]]

apply_kwargs(c, kwargs) ==
    [k \in DOMAIN c \cup (DOMAIN kwargs \cap allowed) |->
        IF k \in DOMAIN kwargs /\ k \in allowed THEN kwargs[k] ELSE c[k]]

\* DashboardController.onboarding_done
onboarding_done_either(c) ==
    PyTruthy(Get(c, "program", PyNone)) \/ PyTruthy(Get(c, "name", PyNone))

onboarding_done(c) ==
    PyTruthy(Get(c, "program", PyNone)) /\ PyTruthy(Get(c, "name", PyNone))

\* DashboardController.compute_viewmodel(today = t); round_up as in ampel.
compute_viewmodel(c, t, round_up) ==
    LET ects_total == _as_int(Get(c, "ects_total", PyIntV(180)), 1, 180)
        ects_done == _as_int(Get(c, "ects_done", PyIntV(0)), 0, ects_total)
        avg_grade == _as_float(Get(c, "avg_grade", PyFloatV(3, 1)),
                               PyFloatV(1, 1), PyFloatV(5, 1))
        start_dt == _parse_date(Get(c, "start", PyNone), t)
        ist_pct == progress_ist(PyIntV(ects_done), PyIntV(ects_total))
        soll_pct == progress_soll(start_dt.dt, t, PyIntV(DURATION_MONTHS))
        a == ampel(ist_pct, soll_pct, PyIntV(ects_total), round_up)
    IN  [ects_total |-> ects_total, ects_done |-> ects_done,
         avg_grade |-> avg_grade, start |-> start_dt,
         ist_pct |-> ist_pct, soll_pct |-> soll_pct,
         ampel_color |-> a.color, ampel_label |-> a.label,
         grade_ok |-> is_ok(avg_grade, DefaultThreshold)]


(***************************************************************************)
(* Specification Spec: a DashboardController over a JsonStore.  The        *)
(* controller is constructed over a file of some content; then update_cfg, *)
(* compute_viewmodel and onboarding_done are called and days pass.         *)
(***************************************************************************)

\* update_cfg is called with at most MaxKwargs keyword arguments.
MaxKwargs == 2

KwargKeys ==
    {"program", "name", "ects_total", "ects_done", "start", "avg_grade", "ampel_color"}

\* The keyword arguments handed to update_cfg: values of the wrong type,
\* unparsable and out of range, and a key update_cfg does not know.
Kwargs ==
    { Present(r) : r \in
        { q \in [program : {Missing, PyNone, PyStrV(" BSc ")},
                 name : {Missing, PyStrV("Ana")},
                 ects_total : {Missing, PyStrV("abc"), PyIntV(200)},
                 ects_done : {Missing, PyIntV(45), PyStrV("abc")},
                 start : {Missing, PyDateTime(Day(2019, 3, 15)), PyStrV("15.03.2019")},
                 avg_grade : {Missing, PyNone, PyFloatV(15, 2)},
                 ampel_color : {Missing, PyStrV("green")}] :
            Cardinality({k \in KwargKeys : q[k] # Missing}) <= MaxKwargs } }

Init ==
    /\ file \in { FileAbsent,
                  FileCorrupt,
                  FileObject([name |-> PyStrV(" Ana "), ampel_color |-> PyStrV("red")]) }
    /\ today = 1
    /\ cfg = load(file, today)
    /\ last = Idle
    /\ semester = <<>> /\ ects_gesamt = 0 /\ call = Idle

UpdateCfg ==
    \E kwargs \in Kwargs :
        LET c == apply_kwargs(cfg, kwargs) IN
        /\ cfg' = c
        /\ file' = save(c, today)
        /\ last' = [op |-> "update_cfg",
                    known |-> DOMAIN kwargs \cap SixKeys # {},
                    unknown |-> DOMAIN kwargs \ SixKeys # {}]
        /\ UNCHANGED <<semester, ects_gesamt, today, call>>

ComputeViewmodel ==
    /\ \E round_up \in BOOLEAN :
          last' = [op |-> "compute_viewmodel",
                   vm |-> compute_viewmodel(cfg, Today(today), round_up)]
    /\ UNCHANGED <<semester, ects_gesamt, cfg, file, today, call>>

OnboardingDone ==
    /\ last' = [op |-> "onboarding_done", ret |-> onboarding_done(cfg)]
    /\ UNCHANGED <<semester, ects_gesamt, cfg, file, today, call>>

Tick ==
    /\ today < Len(Calendar)
    /\ today' = today + 1
    /\ last' = Idle
    /\ UNCHANGED <<semester, ects_gesamt, cfg, file, call>>

Next == UpdateCfg \/ ComputeViewmodel \/ OnboardingDone \/ Tick

Spec == Init /\ [][Next]_vars

\* A value int() does not convert.
NoInt(v) ==
    \/ v.k \in {"none", "list", "date", "datetime", "nan", "inf"}
    \/ v.k = "str" /\ ~(\E l \in DecimalLits : l.s = v.s /\ l.int)

\* A value float() does not convert.
NoFloat(v) ==
    \/ v.k \in {"none", "list", "date", "datetime"}
    \/ v.k = "str" /\ ~(\E l \in DecimalLits : l.s = v.s)

\* C3: whatever update_cfg has stored, every result of compute_viewmodel is
\* well formed: ects_total an integer in [1,180], ects_done an integer in
\* [0, ects_total], avg_grade in [1.0, 5.0], ist_pct and soll_pct in [0,1],
\* the colour green, yellow or red; a numeric field whose stored value
\* cannot be converted takes the lower bound of its range (1, 0, 1.0).
C3_ViewmodelWellFormed ==
    last.op = "compute_viewmodel" =>
        LET vm == last.vm IN
        /\ vm.ects_total \in 1..180
        /\ vm.ects_done \in 0..vm.ects_total
        /\ FloatWithin(vm.avg_grade, 1, 5)
        /\ FloatWithin(vm.ist_pct, 0, 1)
        /\ FloatWithin(vm.soll_pct, 0, 1)
        /\ vm.ampel_color \in {"green", "yellow", "red"}
        /\ vm.grade_ok \in BOOLEAN
        /\ NoInt(cfg["ects_total"]) => vm.ects_total = 1
        /\ NoInt(cfg["ects_done"]) => vm.ects_done = 0
        /\ NoFloat(cfg["avg_grade"]) => vm.avg_grade = PyFloatV(1, 1)

\* A view-model computed from an unconvertible ects_total and an avg_grade
\* above the range.
C3_Witness ==
    /\ last.op = "compute_viewmodel"
    /\ cfg["ects_total"] = PyStrV("abc")
    /\ cfg["avg_grade"] = PyFloatV(15, 2)
    /\ cfg["start"].k = "datetime"
    /\ last.vm.ects_total = 1
    /\ last.vm.avg_grade = PyFloatV(5, 1)

\* C4: no key other than the six recognised ones is ever a key of the
\* controller's configuration, nor of the document an update_cfg call has
\* written; and an update_cfg call that provides no recognised field leaves
\* the configuration as it was.
C4_Whitelist ==
    /\ [](/\ DOMAIN cfg \subseteq SixKeys
          /\ last.op = "update_cfg" => DOMAIN file.doc \subseteq SixKeys)
    /\ [][(last'.op = "update_cfg" /\ ~last'.known) => cfg' = cfg]_vars

\* update_cfg was called with an unrecognised field only.
C4_Witness ==
    /\ last.op = "update_cfg"
    /\ last.unknown /\ ~last.known
    /\ "ampel_color" \notin DOMAIN cfg
    /\ "ampel_color" \notin DOMAIN file.doc

\* The text is a calendar date YYYY-MM-DD.
IsIsoDate(s) == \E dt \in KnownDates : s = isoformat(dt)

\* C5: right after every update_cfg call the persisted document is the
\* sanitised image of the configuration: exactly the six base keys,
\* ects_total in [1,180], ects_done in [0, ects_total], avg_grade in
\* [1.0, 5.0], start an ISO date text.
C5_PersistedSanitised ==
    last.op = "update_cfg" =>
        /\ file.state = "json" /\ file.dict
        /\ file.doc = _sanitize(cfg, today)
        /\ DOMAIN file.doc = SixKeys
        /\ file.doc["ects_total"].k = "int" /\ file.doc["ects_total"].n \in 1..180
        /\ file.doc["ects_done"].k = "int"
        /\ file.doc["ects_done"].n \in 0..file.doc["ects_total"].n
        /\ FloatWithin(file.doc["avg_grade"], 1, 5)
        /\ file.doc["start"].k = "str" /\ IsIsoDate(file.doc["start"].s)

\* The entry key of c holds something: it is there, is not None, and is
\* neither the empty text nor the empty list.
Filled(c, key) ==
    /\ key \in DOMAIN c
    /\ c[key].k # "none"
    /\ c[key] # PyStrV("")
    /\ c[key] # PyList

\* C12: after construction and any sequence of update_cfg calls,
\* onboarding_done() is true exactly when both the program and the name
\* entry of the configuration are non-empty; an empty text, None or a
\* missing entry for either one makes it false.
C12_OnboardingDone ==
    last.op = "onboarding_done" =>
        /\ last.ret = (Filled(cfg, "program") /\ Filled(cfg, "name"))
        /\ \A key \in {"program", "name"} :
              (key \notin DOMAIN cfg \/ cfg[key] = PyNone \/ cfg[key] = PyStrV(""))
                  => ~last.ret

\* onboarding_done() is called with a name and with None as the program.
C12_Witness ==
    /\ last.op = "onboarding_done"
    /\ cfg["program"] = PyNone
    /\ cfg["name"] = PyStrV("Ana")
    /\ ~last.ret

\* onboarding_done() is called with both entries filled.
C12_Done ==
    /\ last.op = "onboarding_done"
    /\ cfg["program"] = PyStrV(" BSc ")
    /\ cfg["name"] = PyStrV("Ana")
    /\ last.ret

\* DashboardController.__init__ on day r over the store as it is: the
\* configuration of a freshly constructed controller.
Restarted(r) == load(file, r)

\* C13: after an update_cfg call, a controller constructed over the same
\* store, on that day or a later one, returns the same onboarding_done()
\* and, for every today, the same compute_viewmodel(today) as the live
\* controller.
C13_RestartTransparent ==
    last.op = "update_cfg" =>
        \A r \in today..Len(Calendar) :
            /\ onboarding_done(Restarted(r)) = onboarding_done(cfg)
            /\ \A t \in 1..Len(Calendar) : \A round_up \in BOOLEAN :
                  compute_viewmodel(Restarted(r), Today(t), round_up)
                      = compute_viewmodel(cfg, Today(t), round_up)

====
